---- MODULE Spec2Model ----
(***************************************************************************)
(* Model of basic_web_server: the request decoder of slib/request.c and    *)
(* the dispatcher / connection worker of src/server.c.                     *)
(*                                                                         *)
(* Strings are sequences of one-byte atoms.  A C buffer is a sequence that *)
(* ends with the terminator NUL; strtok writes further NULs into it.       *)
(***************************************************************************)
EXTENDS Integers, Sequences, FiniteSets, TLC

(* ---------------------------------------------------------------- bytes *)
NUL == "NUL"
SP  == " "
CR  == "CR"
LF  == "LF"
COL == ":"

\* a NULL char* (no string is equal to it: "<null>" is no byte)
NullStr == <<"<null>">>
\* a NULL pointer into the heap
NullPtr == [b |-> 0, i |-> 0]
\* a NULL request*
NullReq == [null |-> TRUE]
\* a NULL response*
NullRes == [null |-> TRUE, res |-> TRUE]

(* ----------------------------------------------------------- bounds ---- *)
\* number of header-block lines of a generated request
MaxLines == 2
\* number of connections the dispatcher accepts
MaxConns == 2
\* capacity of the receive buffer, scaled down from the 8192 of request.h
REQ_BUF_SIZE == 16

(* ------------------------------------------------- libc string helpers *)
\* strspn: first index >= i whose byte is not in delims (NUL is never a delimiter)
RECURSIVE SkipDelims(_, _, _)
SkipDelims(mem, i, delims) ==
    IF mem[i] \in delims THEN SkipDelims(mem, i + 1, delims) ELSE i

\* strcspn: first index >= i whose byte is NUL or in delims
RECURSIVE ScanToken(_, _, _)
ScanToken(mem, i, delims) ==
    IF mem[i] = NUL \/ mem[i] \in delims THEN i ELSE ScanToken(mem, i + 1, delims)

\* the C string that starts at mem[i]: the bytes before the first NUL
CStr(mem, i) == SubSeq(mem, i, ScanToken(mem, i, {}) - 1)

\* strtok on one buffer, scanning from index s: the token's start (0 = NULL),
\* the buffer with the delimiter that ended the token overwritten by NUL, and
\* the saved position for the next call
StrTok(mem, s, delims) ==
    LET p == SkipDelims(mem, s, delims)
        e == ScanToken(mem, p, delims)
    IN  IF mem[p] = NUL
        THEN [tok |-> 0, mem |-> mem, olds |-> p]
        ELSE IF mem[e] = NUL
             THEN [tok |-> p, mem |-> mem, olds |-> e]
             ELSE [tok |-> p, mem |-> [mem EXCEPT ![e] = NUL], olds |-> e + 1]

\* an insert that keeps the entry a key already has
HashInsertKeepFirst(htab, key, value) ==
    IF \E e \in htab : e.k = key THEN htab
    ELSE htab \cup {[k |-> key, v |-> value]}

(* ------------------------------------------------------- header store *)
\* g_hash_table_insert with g_str_equal: one entry per key, last value wins
HashInsert(htab, key, value) ==
    {e \in htab : e.k # key} \cup {[k |-> key, v |-> value]}

\* g_hash_table_lookup: the value stored for key, or NULL
HashLookup(htab, key) ==
    IF \E e \in htab : e.k = key
    THEN (CHOOSE e \in htab : e.k = key).v
    ELSE NullStr

get_request_header(req, header_key) ==
    IF req = NullReq \/ header_key = NullStr THEN NullStr
    ELSE HashLookup(req.header_htab, header_key)

(* ------------------------------------------------------ _parse_request *)
\* _initialize_request: every field NULL, conn_fd -1, an empty header table
initialize_request ==
    [conn_fd |-> -1, http_method |-> NullStr, url |-> NullStr,
     http_ver |-> NullStr, header_htab |-> {}]

\* The locals of one activation of _parse_request: where it is, the Request
\* it fills, and header_key between the two strtok calls of the loop.
ParseLocals(conn_fd) ==
    [pc |-> "tok_method",
     req |-> [initialize_request EXCEPT !.conn_fd = conn_fd],
     header_key |-> NullPtr]

\* a req_buff after free(req_buff): its bytes are no longer the program's
FreedBuf == [mem |-> <<NUL>>, live |-> FALSE, oob |-> FALSE]

\* strtok(first ? req_buff : NULL, delims) against the heap h and strtok's
\* static saved pointer o.  b is the caller's own req_buff.  A saved pointer
\* into a buffer that was freed is a use after free: with segv the read
\* faults, otherwise it finds a NUL there.
TokCall(h, o, b, first, delims, segv) ==
    LET p == IF first THEN [b |-> b, i |-> 1] ELSE o
    IN  IF ~h[p.b].live /\ segv
        THEN [h |-> h, o |-> o, tok |-> NullPtr, fault |-> TRUE]
        ELSE LET r == StrTok(h[p.b].mem, p.i, delims)
             IN  [h |-> [h EXCEPT ![p.b].mem = r.mem],
                  o |-> [b |-> p.b, i |-> r.olds],
                  tok |-> IF r.tok = 0 THEN NullPtr ELSE [b |-> p.b, i |-> r.tok],
                  fault |-> FALSE]

\* strdup(p) where the code has strdup(p + 1): the leading byte is kept
DupAtNoSkip(h, p, off) == IF h[p.b].live THEN CStr(h[p.b].mem, p.i) ELSE <<>>

\* strdup(p + off); behind a pointer into a freed buffer it finds a NUL
DupAt(h, p, off) == IF h[p.b].live THEN CStr(h[p.b].mem, p.i + off) ELSE <<>>

\* free(req_buff); return 1.  strtok's saved pointer is left dangling when
\* it points into the freed buffer.
ParseExit(h, o, l, b) ==
    [h |-> [h EXCEPT ![b] = FreedBuf],
     o |-> IF o.b = b THEN [b |-> b, i |-> 1] ELSE o,
     l |-> [l EXCEPT !.pc = "ret", !.header_key = NullPtr]]

\* One step of _parse_request: one strtok call with the strdup / insert that
\* consumes its result; the call that ends the header loop runs on to the
\* return.  strdup(NULL) faults (pc "segv").
ParseStep(h, o, l, b, segv) ==
    CASE l.pc = "tok_method" ->
            LET r == TokCall(h, o, b, TRUE, {SP}, segv)
            IN  IF r.fault \/ r.tok = NullPtr
                THEN [h |-> r.h, o |-> r.o, l |-> [l EXCEPT !.pc = "segv"]]
                ELSE [h |-> r.h, o |-> r.o,
                      l |-> [l EXCEPT !.pc = "tok_url",
                                      !.req.http_method = DupAt(r.h, r.tok, 0)]]
      [] l.pc = "tok_url" ->
            LET r == TokCall(h, o, b, FALSE, {SP}, segv)
            IN  IF r.fault \/ r.tok = NullPtr
                THEN [h |-> r.h, o |-> r.o, l |-> [l EXCEPT !.pc = "segv"]]
                ELSE [h |-> r.h, o |-> r.o,
                      l |-> [l EXCEPT !.pc = "tok_ver",
                                      !.req.url = DupAt(r.h, r.tok, 0)]]
      [] l.pc = "tok_ver" ->
            LET r == TokCall(h, o, b, FALSE, {CR}, segv)
            IN  IF r.fault \/ r.tok = NullPtr
                THEN [h |-> r.h, o |-> r.o, l |-> [l EXCEPT !.pc = "segv"]]
                ELSE [h |-> r.h, o |-> r.o,
                      l |-> [l EXCEPT !.pc = "tok_key",
                                      !.req.http_ver = DupAt(r.h, r.tok, 0)]]
      [] l.pc = "tok_key" ->
            LET r == TokCall(h, o, b, FALSE, {COL}, segv)
            IN  IF r.fault
                THEN [h |-> r.h, o |-> r.o, l |-> [l EXCEPT !.pc = "segv"]]
                ELSE IF r.tok = NullPtr
                THEN ParseExit(r.h, r.o, l, b)
                ELSE [h |-> r.h, o |-> r.o,
                      l |-> [l EXCEPT !.pc = "tok_val", !.header_key = r.tok]]
      [] l.pc = "tok_val" ->
            LET r == TokCall(h, o, b, FALSE, {CR}, segv)
            IN  IF r.fault \/ (~h[l.header_key.b].live /\ segv)
                THEN [h |-> r.h, o |-> r.o, l |-> [l EXCEPT !.pc = "segv"]]
                ELSE IF r.tok = NullPtr
                THEN ParseExit(r.h, r.o, l, b)
                ELSE [h |-> r.h, o |-> r.o,
                      l |-> [l EXCEPT !.pc = "tok_key",
                                      !.header_key = NullPtr,
                                      !.req.header_htab =
                                          HashInsert(l.req.header_htab,
                                                     DupAt(r.h, l.header_key, 1),
                                                     DupAt(r.h, r.tok, 1))]]
      [] OTHER -> [h |-> h, o |-> o, l |-> l]

\* _parse_request run to its end by one thread alone
RECURSIVE ParseRun(_, _, _, _)
ParseRun(h, o, l, b) ==
    IF l.pc \in {"ret", "segv"} THEN l
    ELSE LET n == ParseStep(h, o, l, b, FALSE) IN ParseRun(n.h, n.o, n.l, b)

\* parse_request that hands out the Request whatever became of the decoding
parse_request_partial(req_buf, conn_fd) ==
    LET h == [b \in {1} |-> [mem |-> req_buf \o <<NUL>>, live |-> TRUE, oob |-> FALSE]]
        l == ParseRun(h, NullPtr, ParseLocals(conn_fd), 1)
    IN  [status |-> "req", req |-> l.req]

\* parse_request(req_buf, conn_fd) for a NUL-terminated req_buf, called by a
\* single thread: "segv" (the process faults) or the Request returned.
\* _parse_request returns 0 only for NULL arguments, which parse_request
\* never passes, so the "return NULL" of line 47 is not taken.
parse_request(req_buf, conn_fd) ==
    LET h == [b \in {1} |-> [mem |-> req_buf \o <<NUL>>, live |-> TRUE, oob |-> FALSE]]
        l == ParseRun(h, NullPtr, ParseLocals(conn_fd), 1)
    IN  IF l.pc = "segv" THEN [status |-> "segv", req |-> NullReq]
        ELSE [status |-> "req", req |-> l.req]


(* ------------------------------------------------------ request bytes *)
\* the bytes of a request: the request-line tokens joined by single
\* spaces, CRLF, then every header-block line followed by CRLF, then
\* (blank) the empty line
RECURSIVE JoinTokens(_)
JoinTokens(toks) ==
    IF toks = <<>> THEN <<>>
    ELSE IF Len(toks) = 1 THEN toks[1]
    ELSE toks[1] \o <<SP>> \o JoinTokens(Tail(toks))

RenderLine(ln) ==
    IF ln.colon THEN ln.name \o <<COL, SP>> \o ln.value ELSE ln.name

RECURSIVE RenderLines(_)
RenderLines(lines) ==
    IF lines = <<>> THEN <<>>
    ELSE RenderLine(lines[1]) \o <<CR, LF>> \o RenderLines(Tail(lines))

Render(toks, lines, blank) ==
    JoinTokens(toks) \o <<CR, LF>> \o RenderLines(lines)
        \o (IF blank THEN <<CR, LF>> ELSE <<>>)

Hdr(name, value) == [name |-> name, value |-> value, colon |-> TRUE]

(* ------------------------------------------- configuration, file system *)
\* the configured document root and default page (config.c is not part of
\* the sources: the lookup hands out the stored string itself)
SiteDir == <<"s">>
DefaultPage == <<"/", "i">>
\* the files that exist under the document root
Files == {SiteDir \o <<"/", "a">>, SiteDir \o DefaultPage}

\* what the peers of the accepted connections send
GetA       == Render(<<<<"G">>, <<"/", "a">>, <<"H">>>>, <<Hdr(<<"K">>, <<"v">>)>>, FALSE)
GetRoot    == Render(<<<<"G">>, <<"/">>, <<"H">>>>, <<>>, FALSE)
GetMissing == Render(<<<<"G">>, <<"/", "x">>, <<"H">>>>, <<>>, FALSE)
\* a request longer than the receive buffer
Oversize   ==
    Render(<<<<"G">>, <<"/", "a">>, <<"H">>>>,
           <<Hdr(<<"K">>, [i \in 1..REQ_BUF_SIZE |-> "v"])>>, FALSE)
PeerInputs == {GetA, GetRoot, GetMissing, Oversize}

\* what the stack holds where req_buf is placed, before recv writes into it
StackPriors == {[i \in 1..REQ_BUF_SIZE |-> NUL], [i \in 1..REQ_BUF_SIZE |-> "g"]}
\* what lies behind req_buf, up to the first NUL there
StackTails == {<<>>, <<"t">>}

Conns == 1..MaxConns

VARIABLES
    dpc,        \* main: "accept", "create", "detach"
    dconn_fd,   \* main's conn_fd
    tid,        \* main's tid (0: never written)
    naccepted,  \* connections accepted so far
    npeers,     \* how many peers connect in this run
    cell,       \* the malloc'ed int handed to each worker
    conn,       \* the accepted sockets
    wk,         \* the locals of each handle_request thread
    heap,       \* the req_buff of each _parse_request activation
    olds,       \* strtok's static saved pointer, one per process
    config,     \* the configuration strings
    crashed,    \* the process was killed (SIGSEGV / abort)
    pin, pout   \* input and result of a lone parse_request call

vars == <<dpc, dconn_fd, tid, naccepted, npeers, cell, conn, wk, heap, olds, config,
          crashed, pin, pout>>
srv == <<dpc, dconn_fd, tid, naccepted, npeers, cell, conn, wk, heap, olds, config,
         crashed>>

NoParse == [status |-> "none", req |-> NullReq]

WorkerInit ==
    [pc |-> "idle", conn_fd |-> -1, req |-> NullReq, url_cfg |-> FALSE,
     got |-> "none", file |-> "NULL", fcloses |-> 0, res |-> NullRes,
     req_frees |-> 0, res_frees |-> 0, l |-> ParseLocals(-1),
     path |-> <<>>, null_deref |-> FALSE,
     hdr_failed |-> FALSE, body_failed |-> FALSE]

ServerInit(n) ==
    /\ npeers = n
    /\ dpc = "accept"
    /\ dconn_fd = -1
    /\ tid = 0
    /\ naccepted = 0
    /\ cell = [c \in Conns |-> [val |-> -1, live |-> FALSE, frees |-> 0]]
    /\ conn = [c \in Conns |-> [state |-> "none", closes |-> 0, inbuf |-> <<>>,
                                sent |-> <<>>, worker |-> FALSE,
                                start_failed |-> FALSE, logged |-> FALSE]]
    /\ wk = [c \in Conns |-> WorkerInit]
    /\ heap = [c \in Conns |-> FreedBuf]
    /\ olds = NullPtr
    /\ config = [page |-> DefaultPage, page_frees |-> 0, site_dir |-> SiteDir]
    /\ crashed = FALSE

Init ==
    /\ ServerInit(MaxConns)
    /\ pin = [buf |-> <<>>, fd |-> -1, toks |-> <<>>, lines |-> <<>>, blank |-> FALSE]
    /\ pout = NoParse


(* ------------------------------------------------- main: the accept loop *)
\* what pthread_create returns: 0, or an error number (EAGAIN), never < 0
PthreadCreateResults == {0, 11}
\* what pthread_detach returns for a tid that names no joinable thread
PthreadDetachErrors == {0, 3, 22}

\* accept fails: perror, continue
DAcceptFail ==
    /\ ~crashed /\ dpc = "accept"
    /\ dconn_fd' = -1
    /\ UNCHANGED <<dpc, tid, naccepted, npeers, cell, conn, wk, heap, olds, config,
                   crashed, pin, pout>>

\* accept returns a new connection; its descriptor is copied to a fresh cell
DAccept ==
    /\ ~crashed /\ dpc = "accept"
    /\ naccepted < npeers
    /\ \E bytes \in PeerInputs :
        LET c == naccepted + 1 IN
        /\ naccepted' = c
        /\ dconn_fd' = c
        /\ conn' = [conn EXCEPT ![c].state = "open", ![c].inbuf = bytes]
        /\ cell' = [cell EXCEPT ![c] = [val |-> c, live |-> TRUE, frees |-> 0]]
    /\ dpc' = "create"
    /\ UNCHANGED <<tid, npeers, wk, heap, olds, config, crashed, pin, pout>>

\* pthread_create and the test of its result
DCreate ==
    /\ ~crashed /\ dpc = "create"
    /\ \E ret \in PthreadCreateResults :
        LET c == dconn_fd IN
        IF ret < 0
        THEN /\ conn' = [conn EXCEPT ![c].state = "closed", ![c].closes = @ + 1,
                                     ![c].start_failed = TRUE,
                                     ![c].logged = TRUE]
             /\ cell' = [cell EXCEPT ![c].live = FALSE, ![c].frees = @ + 1]
             /\ dpc' = "accept"
             /\ UNCHANGED <<tid, wk>>
        ELSE /\ dpc' = "detach"
             /\ UNCHANGED cell
             /\ IF ret = 0
                THEN /\ tid' = c
                     /\ wk' = [wk EXCEPT ![c].pc = "start"]
                     /\ conn' = [conn EXCEPT ![c].worker = TRUE]
                ELSE /\ conn' = [conn EXCEPT ![c].start_failed = TRUE]
                     /\ UNCHANGED <<tid, wk>>
    /\ UNCHANGED <<dconn_fd, naccepted, npeers, heap, olds, config, crashed, pin, pout>>

\* pthread_detach(tid).  When pthread_create failed, tid was not written: it
\* is uninitialized or names an earlier thread, and pthread_detach of such a
\* value returns some result or faults on the thread descriptor it reads.
DDetach ==
    /\ ~crashed /\ dpc = "detach"
    /\ \E ret \in (IF tid = dconn_fd THEN {0} ELSE PthreadDetachErrors),
          segv \in (IF tid = dconn_fd THEN {FALSE} ELSE BOOLEAN) :
        /\ dpc' = IF segv THEN "crashed" ELSE "accept"
        /\ crashed' = segv
    /\ UNCHANGED <<dconn_fd, tid, naccepted, npeers, cell, conn, wk, heap, olds, config,
                   pin, pout>>

(* ------------------------------------------------ collaborators (spec) *)
\* get_config_str: the stored string of a key
get_config_str(cfg, key) == IF key = "page" THEN cfg.page ELSE cfg.site_dir

\* get_mimetype_for_url: a content-type label by suffix, or the default
get_mimetype_for_url(url) ==
    IF url = DefaultPage THEN "text/html" ELSE "application/octet-stream"

\* create_response_from_request: a Response bound to the Request's connection
create_response_from_request(req) ==
    [conn_fd |-> req.conn_fd, status_code |-> "", headers |-> <<>>,
     header_sent |-> FALSE, body |-> "none"]

set_response_header(res, name, value) ==
    [res EXCEPT !.headers = Append(@, <<name, value>>)]

\* send_response_header: what goes on the wire is the status line, each
\* header that was set, in order, and the blank line that ends the block
send_response_header(res) ==
    [kind |-> "headers", status |-> res.status_code, headers |-> res.headers,
     blank |-> TRUE]

\* send_response_file: body bytes of the open file, all of them or, when a
\* read or write failed, a part
send_response_file(res, ok) == [kind |-> "body", complete |-> ok]

\* close_response: releases the header block; a body stream is released only
\* if the worker has not closed it already
close_response(W) ==
    [W EXCEPT !.w.res_frees = @ + 1,
              !.w.fcloses = IF W.w.res.body = "stream" /\ W.w.file = "open"
                            THEN @ + 1 ELSE @,
              !.w.file = IF W.w.res.body = "stream" /\ W.w.file = "open"
                         THEN "closed" ELSE @]

(* ------------------------------------------------------- clean_request *)
\* W is what a cleanup touches: the worker's locals w, the sockets, the
\* configuration, and whether the process was killed.
fclose_file(W) ==
    [W EXCEPT !.w.file = "closed", !.w.fcloses = @ + 1]

\* _free_request: frees the header table, method, url, version, the struct.
\* When url is the configuration's own string, free(req->url) releases that;
\* a second release is a double free (abort: glibc kills the process).
free_request(W, abort) ==
    IF W.w.url_cfg
    THEN IF W.cfg.page_frees > 0 /\ abort
         THEN [W EXCEPT !.crashed = TRUE]
         ELSE [W EXCEPT !.cfg.page_frees = @ + 1, !.w.req_frees = @ + 1]
    ELSE [W EXCEPT !.w.req_frees = @ + 1]

\* close_request without the close of the descriptor
close_request_leak(W, abort) == free_request(W, abort)

close_request(W, abort) ==
    LET fd == W.w.req.conn_fd IN
    free_request(IF fd # -1
                 THEN [W EXCEPT !.conn[fd].closes = @ + 1,
                                !.conn[fd].state = "closed",
                                !.w.req.conn_fd = -1]
                 ELSE W,
                 abort)

\* clean_request without the test of file against NULL
clean_request_unguarded(W, abort) ==
    LET a == fclose_file(W)
        b == IF a.w.req # NullReq THEN close_request(a, abort) ELSE a
    IN  IF b.crashed THEN b
        ELSE IF b.w.res # NullRes THEN close_response(b) ELSE b

clean_request(W, abort) ==
    LET a == IF W.w.file # "NULL" THEN fclose_file(W) ELSE W
        b == IF a.w.req # NullReq THEN close_request(a, abort) ELSE a
    IN  IF b.crashed THEN b
        ELSE IF b.w.res # NullRes THEN close_response(b) ELSE b

World(w) == [w |-> w, conn |-> conn, cfg |-> config, crashed |-> crashed]

\* handle_request returns (or the process dies) with the world W
Finish(c, W) ==
    /\ wk' = [wk EXCEPT ![c] = [W.w EXCEPT !.pc = IF W.crashed THEN "crashed" ELSE "done"]]
    /\ conn' = W.conn
    /\ config' = W.cfg
    /\ crashed' = W.crashed

(* ------------------------------------------------------ handle_request *)
\* lines 108-109: read the descriptor from the cell, free the cell
WStart(c) ==
    /\ ~crashed /\ wk[c].pc = "start"
    /\ wk' = [wk EXCEPT ![c].conn_fd = cell[c].val, ![c].pc = "recv"]
    /\ cell' = [cell EXCEPT ![c].live = FALSE, ![c].frees = @ + 1]
    /\ UNCHANGED <<dpc, dconn_fd, tid, naccepted, npeers, conn, heap, olds, config,
                   crashed, pin, pout>>

Min(a, b) == IF a < b THEN a ELSE b

\* req_buf after recv wrote the first REQ_BUF_SIZE bytes the peer sent over
\* what the stack held
RecvInto(prior, inbuf) ==
    [i \in 1..REQ_BUF_SIZE |->
        IF i <= Min(Len(inbuf), REQ_BUF_SIZE) THEN inbuf[i] ELSE prior[i]]

\* strdup(req_buf): the bytes up to the first NUL; with no NUL inside
\* req_buf the copy runs on into what lies behind it
StrDupBuf(buf, tail) ==
    IF \E i \in 1..Len(buf) : buf[i] = NUL
    THEN [str |-> CStr(buf \o <<NUL>>, 1), oob |-> FALSE]
    ELSE [str |-> buf \o tail, oob |-> TRUE]

\* get_request up to the strdup of _parse_request; recv < 0 returns NULL
WRecv(c) ==
    /\ ~crashed /\ wk[c].pc = "recv"
    /\ \/ /\ wk' = [wk EXCEPT ![c].got = "null", ![c].req = NullReq, ![c].pc = "deref"]
          /\ UNCHANGED heap
       \/ \E prior \in StackPriors, tail \in StackTails :
            LET d == StrDupBuf(RecvInto(prior, conn[wk[c].conn_fd].inbuf), tail) IN
            /\ heap' = [heap EXCEPT ![c] = [mem |-> d.str \o <<NUL>>, live |-> TRUE,
                                            oob |-> d.oob]]
            /\ wk' = [wk EXCEPT ![c].l = ParseLocals(wk[c].conn_fd), ![c].pc = "parse"]
    /\ UNCHANGED <<dpc, dconn_fd, tid, naccepted, npeers, cell, conn, olds, config,
                   crashed, pin, pout>>

\* one strtok step of _parse_request; its return hands the Request over
WParse(c) ==
    /\ ~crashed /\ wk[c].pc = "parse"
    /\ \E segv \in BOOLEAN :
        LET n == ParseStep(heap, olds, wk[c].l, c, segv) IN
        /\ heap' = n.h
        /\ olds' = n.o
        /\ crashed' = (n.l.pc = "segv")
        /\ wk' = [wk EXCEPT ![c].l = IF n.l.pc = "ret" THEN ParseLocals(-1) ELSE n.l,
                            ![c].pc = CASE n.l.pc = "segv" -> "crashed"
                                        [] n.l.pc = "ret" -> "deref"
                                        [] OTHER -> "parse",
                            ![c].req = IF n.l.pc = "ret" THEN n.l.req ELSE @,
                            ![c].got = IF n.l.pc = "ret" THEN "req" ELSE @]
    /\ UNCHANGED <<dpc, dconn_fd, tid, naccepted, npeers, cell, conn, config, pin, pout>>

\* lines 116-127: the root path is replaced by the configured page, the path
\* is built, the file opened; if it cannot be opened, clean up and return.
\* req is dereferenced without a test.  A configured page that was freed is
\* read after free: stale, or whatever replaced it.
WResolve(c) ==
    /\ ~crashed /\ wk[c].pc = "deref"
    /\ IF wk[c].req = NullReq
       THEN /\ wk' = [wk EXCEPT ![c].null_deref = TRUE, ![c].pc = "crashed"]
            /\ crashed' = TRUE
            /\ UNCHANGED <<conn, config>>
       ELSE \E stale \in BOOLEAN, abort \in BOOLEAN :
            LET root == wk[c].req.url = <<"/">>
                page == IF config.page_frees = 0 \/ stale
                        THEN get_config_str(config, "page") ELSE <<"?">>
                url  == IF root THEN page ELSE wk[c].req.url
                path == get_config_str(config, "site_dir") \o url
                w1   == [wk[c] EXCEPT !.req.url = url, !.url_cfg = root, !.path = path]
            IN  IF path \in Files
                THEN /\ wk' = [wk EXCEPT ![c] = [w1 EXCEPT !.file = "open", !.pc = "respond"]]
                     /\ UNCHANGED <<conn, config, crashed>>
                ELSE Finish(c, clean_request(World(w1), abort))
    /\ UNCHANGED <<dpc, dconn_fd, tid, naccepted, npeers, cell, heap, olds, pin, pout>>

\* WRespond without the test of send_response_header's result: a failed
\* header block is followed by the body
WRespondUnchecked(c) ==
    /\ ~crashed /\ wk[c].pc = "respond"
    /\ LET r0 == create_response_from_request(wk[c].req)
           r1 == [r0 EXCEPT !.status_code = "200 OK"]
           r2 == set_response_header(r1, "content-type", get_mimetype_for_url(wk[c].req.url))
           r3 == set_response_header(r2, "server", "ElServe/2.0")
       IN  \/ /\ wk' = [wk EXCEPT ![c].res = [r3 EXCEPT !.header_sent = TRUE],
                                  ![c].pc = "sendfile"]
              /\ conn' = [conn EXCEPT ![r3.conn_fd].sent =
                                           Append(@, send_response_header(r3))]
           \/ /\ wk' = [wk EXCEPT ![c].res = r3, ![c].hdr_failed = TRUE,
                                  ![c].pc = "sendfile"]
              /\ UNCHANGED conn
    /\ UNCHANGED <<dpc, dconn_fd, tid, naccepted, npeers, cell, heap, olds, config,
                   crashed, pin, pout>>

\* lines 129-137: build the Response, send the header block
WRespond(c) ==
    /\ ~crashed /\ wk[c].pc = "respond"
    /\ LET r0 == create_response_from_request(wk[c].req)
           r1 == [r0 EXCEPT !.status_code = "200 OK"]
           r2 == set_response_header(r1, "content-type", get_mimetype_for_url(wk[c].req.url))
           r3 == set_response_header(r2, "server", "ElServe/2.0")
       IN  \/ /\ wk' = [wk EXCEPT ![c].res = [r3 EXCEPT !.header_sent = TRUE],
                                  ![c].pc = "sendfile"]
              /\ conn' = [conn EXCEPT ![r3.conn_fd].sent =
                                           Append(@, send_response_header(r3))]
              /\ UNCHANGED <<config, crashed>>
           \/ \E abort \in BOOLEAN :
                Finish(c, clean_request(
                    World([wk[c] EXCEPT !.res = r3, !.hdr_failed = TRUE]), abort))
    /\ UNCHANGED <<dpc, dconn_fd, tid, naccepted, npeers, cell, heap, olds, pin, pout>>

\* lines 139-147: stream the file, then clean up on either outcome
WSendFile(c) ==
    /\ ~crashed /\ wk[c].pc = "sendfile"
    /\ \E ok \in BOOLEAN, abort \in BOOLEAN :
        LET w1 == [wk[c] EXCEPT !.res.body = "stream", !.body_failed = ~ok]
            W  == World(w1)
            W1 == [W EXCEPT !.conn[w1.res.conn_fd].sent =
                               Append(@, send_response_file(w1.res, ok))]
        IN  Finish(c, clean_request(W1, abort))
    /\ UNCHANGED <<dpc, dconn_fd, tid, naccepted, npeers, cell, heap, olds, pin, pout>>

Worker(c) == WStart(c) \/ WRecv(c) \/ WParse(c) \/ WResolve(c) \/ WRespond(c) \/ WSendFile(c)

Next ==
    \/ DAcceptFail \/ DAccept \/ DCreate \/ DDetach
    \/ \E c \in Conns : Worker(c)

Spec == Init /\ [][Next]_vars

\* one peer connects and is served alone
SoloInit ==
    /\ ServerInit(1)
    /\ pin = [buf |-> <<>>, fd |-> -1, toks |-> <<>>, lines |-> <<>>, blank |-> FALSE]
    /\ pout = NoParse

SoloSpec == SoloInit /\ [][Next]_vars

\* the lone connection under fair scheduling: a thread that can run does run,
\* and the blocking calls of the accept loop's tail return
FairSoloSpec ==
    /\ SoloInit /\ [][Next]_vars
    /\ WF_vars(DCreate) /\ WF_vars(DDetach)
    /\ \A c \in Conns : WF_vars(Worker(c))

(* ------------------------------------------- a lone parse_request call *)
Methods  == {<<"G">>}
Targets  == {<<"/">>, <<"/", "x">>}
Versions == {<<"H">>}
Names    == {<<"K">>, <<"L">>, <<"k">>}
Values   == {<<>>, <<"a">>, <<"a", COL, "b">>}

\* request lines of zero to three tokens
TokSeqs ==
    {<<>>} \cup {<<m>> : m \in Methods}
           \cup {<<m, t>> : m \in Methods, t \in Targets}
           \cup {<<m, t, v>> : m \in Methods, t \in Targets, v \in Versions}

\* header-block lines: 'Name: Value', or a line without ':'
LineSet ==
    {Hdr(n, v) : n \in Names, v \in Values}
        \cup {[name |-> <<"b", "d">>, value |-> <<>>, colon |-> FALSE]}
LineSeqs == UNION {[1..n -> LineSet] : n \in 0..MaxLines}

ParseInit ==
    /\ ServerInit(0)
    /\ \E toks \in TokSeqs, lines \in LineSeqs, blank \in BOOLEAN, fd \in {3, 4} :
        pin = [buf |-> Render(toks, lines, blank), fd |-> fd,
               toks |-> toks, lines |-> lines, blank |-> blank]
    /\ pout = NoParse

ParseCall ==
    /\ pout.status = "none"
    /\ pout' = parse_request(pin.buf, pin.fd)
    /\ UNCHANGED <<pin, srv>>

ParseSpec == ParseInit /\ [][ParseCall]_vars

(* --------------------------------------------- a lone get_request call *)
\* get_request: recv into req_buf, which has no initializer, then
\* parse_request(req_buf, conn_fd); NULL when recv failed
get_request(bytes, recv_ok, prior, tail, conn_fd) ==
    IF ~recv_ok THEN [status |-> "null", req |-> NullReq]
    ELSE parse_request(StrDupBuf(RecvInto(prior, bytes), tail).str, conn_fd)

\* what an earlier call on the same stack left where req_buf is placed
Leftover == RecvInto([i \in 1..REQ_BUF_SIZE |-> NUL], GetA)
GetPriors == StackPriors \cup {Leftover}

\* the n bytes recv delivers: any prefix of what a peer sends that fits
GetBytes ==
    {SubSeq(r, 1, Min(n, Len(r))) : r \in PeerInputs, n \in 0..REQ_BUF_SIZE}

\* two calls that receive the same bytes into differently filled buffers
GetInit ==
    /\ ServerInit(0)
    /\ \E bytes \in GetBytes, ok \in BOOLEAN, priorA \in GetPriors,
          priorB \in GetPriors, tail \in StackTails :
        pin = [bytes |-> bytes, recv_ok |-> ok, priorA |-> priorA,
               priorB |-> priorB, tail |-> tail, fd |-> 3]
    /\ pout = [status |-> "none", a |-> NoParse, b |-> NoParse]

GetCall ==
    /\ pout.status = "none"
    /\ pout' = [status |-> "done",
                a |-> get_request(pin.bytes, pin.recv_ok, pin.priorA, pin.tail, pin.fd),
                b |-> get_request(pin.bytes, pin.recv_ok, pin.priorB, pin.tail, pin.fd)]
    /\ UNCHANGED <<pin, srv>>

GetSpec == GetInit /\ [][GetCall]_vars

(* ------------------------------------------- the length of file_path *)
\* the sizes the build uses for file_path and for req_buf
FILE_PATH_BUF_SIZE == 1024
REQ_BUF_BYTES == 8192

\* sprintf(file_path, "%s%s", site_dir, url): the number of characters it
\* writes before the terminating NUL; sprintf takes no limit
sprintf_len(site_dir_len, url_len) == site_dir_len + url_len

\* targets of every length that a request line 'M SP target SP V CR' held
\* by req_buf can carry; the target "/" is the one of length 1 that is
\* replaced by the configured page
TargetLens == 1..(REQ_BUF_BYTES - 4)

PathInit ==
    /\ ServerInit(0)
    /\ \E n \in TargetLens, root \in BOOLEAN :
        /\ root => n = 1
        /\ pin = [target_len |-> n, root |-> root, site_dir_len |-> Len(SiteDir)]
    /\ pout = [status |-> "none", path_len |-> 0]

\* lines 116-121 of handle_request, by lengths
PathCall ==
    /\ pout.status = "none"
    /\ LET url_len == IF pin.root THEN Len(DefaultPage) ELSE pin.target_len IN
       pout' = [status |-> "done", path_len |-> sprintf_len(pin.site_dir_len, url_len)]
    /\ UNCHANGED <<pin, srv>>

PathSpec == PathInit /\ [][PathCall]_vars


(* ================================================================ claims *)
\* the bytes recv leaves in req_buf for connection c
Received(c) == SubSeq(conn[c].inbuf, 1, Min(Len(conn[c].inbuf), REQ_BUF_SIZE))

\* C1: a worker whose get_request returned no Request goes directly to
\* cleanup: it never reads a field of the absent Request, writes nothing,
\* closes the connection and returns.
C1_NoRequestGoesToCleanup ==
    \A c \in Conns :
        (wk[c].got = "null" /\ wk[c].pc # "deref") =>
            /\ ~wk[c].null_deref
            /\ wk[c].pc = "done"
            /\ conn[c].sent = <<>>
            /\ conn[c].closes = 1

\* C2: when the body stream failed part-way and the worker has returned,
\* the file and the connection have each been closed exactly once.
C2_BodyFailureClosesOnce ==
    \A c \in Conns :
        (wk[c].pc = "done" /\ wk[c].body_failed) =>
            /\ wk[c].fcloses = 1 /\ wk[c].file = "closed"
            /\ conn[c].closes = 1 /\ conn[c].state = "closed"

C2_Witness ==
    \E c \in Conns : wk[c].pc = "done" /\ wk[c].body_failed /\ wk[c].res_frees = 1

\* C3: under every interleaving, the method, target and version a worker
\* decoded are those of the bytes of its own connection.
C3_DecodedFromOwnBytes ==
    \A c \in Conns :
        (wk[c].pc = "deref" /\ wk[c].got = "req") =>
            LET own == parse_request(Received(c), wk[c].conn_fd).req IN
            /\ wk[c].req.http_method = own.http_method
            /\ wk[c].req.url = own.url
            /\ wk[c].req.http_ver = own.http_ver

\* C4: once the accept loop is back at accept, a connection whose worker
\* could not be started is closed, its cell is freed and the failure logged.
C4_StartFailureClosesConnection ==
    \A c \in Conns :
        (conn[c].start_failed /\ dpc = "accept") =>
            /\ conn[c].state = "closed"
            /\ ~cell[c].live
            /\ conn[c].logged

\* C5: a request line of fewer than three tokens makes parse_request return
\* no Request, without a fault.
C5_FewTokensFailDecoding ==
    (pout.status # "none" /\ Len(pin.toks) < 3) => pout.status = "null"

\* the header store that holds exactly the given 'Name: Value' lines
RECURSIVE StoreOf(_)
StoreOf(lines) ==
    IF lines = <<>> THEN {}
    ELSE HashInsert(StoreOf(SubSeq(lines, 1, Len(lines) - 1)),
                    lines[Len(lines)].name, lines[Len(lines)].value)

\* the input is a three-token request line whose header block has a line
\* without ':' at j, directly followed by a 'Name: Value' line
MalformedThenWellFormed(j) ==
    /\ Len(pin.toks) = 3
    /\ j \in 1..(Len(pin.lines) - 1)
    /\ \A i \in 1..(j - 1) : pin.lines[i].colon
    /\ ~pin.lines[j].colon
    /\ pin.lines[j + 1].colon

\* C6: header parsing stops at the malformed line: the store holds exactly
\* the headers before it, and neither name nor value of the line after it.
C6_StopsAtMalformedLine ==
    \A j \in 1..MaxLines :
        (pout.status # "none" /\ MalformedThenWellFormed(j)) =>
            /\ pout.status = "req"
            /\ pout.req.header_htab = StoreOf(SubSeq(pin.lines, 1, j - 1))
            /\ \A e \in pout.req.header_htab :
                  /\ e.k # pin.lines[j + 1].name
                  /\ e.v # pin.lines[j + 1].value

\* the input is 'METHOD SP TARGET SP VERSION CRLF' followed by
\* 'Name: Value CRLF' lines with distinct names
WellFormed ==
    /\ Len(pin.toks) = 3
    /\ \A i \in 1..Len(pin.lines) : pin.lines[i].colon
    /\ \A i, j \in 1..Len(pin.lines) :
          pin.lines[i].name = pin.lines[j].name => i = j

\* C7: for a well-formed request parse_request returns a Request bound to
\* the given descriptor, with the three request-line tokens and a header
\* store that maps each Name to exactly its Value and holds nothing else.
C7_WellFormedDecodes ==
    (pout.status # "none" /\ WellFormed) =>
        /\ pout.status = "req"
        /\ pout.req.conn_fd = pin.fd
        /\ pout.req.http_method = pin.toks[1]
        /\ pout.req.url = pin.toks[2]
        /\ pout.req.http_ver = pin.toks[3]
        /\ \A i \in 1..Len(pin.lines) :
              get_request_header(pout.req, pin.lines[i].name) = pin.lines[i].value
        /\ \A e \in pout.req.header_htab :
              \E i \in 1..Len(pin.lines) : e.k = pin.lines[i].name

C7_Witness ==
    /\ pout.status = "req" /\ WellFormed
    /\ Len(pin.lines) >= 2
    /\ Cardinality(pout.req.header_htab) = Len(pin.lines)

\* C8: when the peer sent more than REQ_BUF_SIZE bytes, decoding does not
\* read past the end of req_buf.
C8_OversizeStaysInBuffer ==
    \A c \in Conns :
        Len(conn[c].inbuf) > REQ_BUF_SIZE => ~heap[c].oob

\* C9: no worker releases or changes a configuration value.
C9_ConfigNeverReleased ==
    /\ config.page_frees = 0
    /\ config.page = DefaultPage
    /\ config.site_dir = SiteDir

\* C10: a worker that returned because the file could not be opened wrote
\* nothing, closed the connection once, released the Request, and released
\* neither a file handle nor a Response.
C10_NotFoundCleanup ==
    \A c \in Conns :
        (wk[c].pc = "done" /\ wk[c].got = "req" /\ wk[c].path \notin Files) =>
            /\ conn[c].sent = <<>>
            /\ conn[c].closes = 1 /\ conn[c].state = "closed"
            /\ wk[c].req_frees = 1
            /\ wk[c].file = "NULL" /\ wk[c].fcloses = 0
            /\ wk[c].res = NullRes /\ wk[c].res_frees = 0

C10_Witness ==
    \E c \in Conns :
        /\ wk[c].pc = "done" /\ wk[c].file = "NULL"
        /\ wk[c].got = "req" /\ wk[c].path \notin Files

\* C11: every accepted connection is eventually closed (the end of the whole
\* process counts as closing it), and no connection is closed twice.
C11_EveryConnectionEventuallyClosed ==
    \A c \in Conns :
        /\ (conn[c].state = "open") ~> (conn[c].state = "closed" \/ crashed)
        /\ [](conn[c].closes <= 1)

\* the header block of a response to the Request of worker c
HeaderBlockOf(c) ==
    [kind |-> "headers", status |-> "200 OK",
     headers |-> << <<"content-type", get_mimetype_for_url(wk[c].req.url)>>,
                    <<"server", "ElServe/2.0">> >>,
     blank |-> TRUE]

\* C12: body bytes are on the wire only behind the complete header block
\* (status line 200 OK, content-type, server, blank line); the headers of a
\* Response whose block was sent are those that were sent; a worker whose
\* header block failed has written nothing and is through with cleanup.
C12_BodyOnlyAfterHeaderBlock ==
    \A c \in Conns :
        LET s == conn[c].sent IN
        /\ \A i \in 1..Len(s) :
              s[i].kind = "body" => (i = 2 /\ s[1] = HeaderBlockOf(c))
        /\ (wk[c].res # NullRes /\ wk[c].res.header_sent) =>
              (s # <<>> /\ s[1].kind = "headers" /\ s[1].headers = wk[c].res.headers)
        /\ wk[c].hdr_failed =>
              (s = <<>> /\ wk[c].pc \in {"done", "crashed"} /\ wk[c].res.body = "none")

C12_Witness ==
    \E c \in Conns :
        /\ wk[c].pc = "done" /\ Len(conn[c].sent) = 2
        /\ conn[c].sent[2].kind = "body" /\ conn[c].sent[2].complete

\* C13: no step of the accept loop ends the process, and the loop never
\* waits for a worker: whatever the workers are doing, accept can return a
\* further connection, and pthread_create and pthread_detach can return.
C13_DispatcherNeverStops ==
    /\ dpc \in {"accept", "create", "detach"}
    /\ (~crashed /\ dpc = "accept" /\ naccepted < npeers) => ENABLED DAccept
    /\ (~crashed /\ dpc = "create") => ENABLED DCreate
    /\ (~crashed /\ dpc = "detach") => ENABLED DDetach

\* C14: the step that builds the path turns the target "/" into the
\* configured default page and opens document root ++ page; it leaves every
\* other target as it is and opens document root ++ target.
C14_RootResolvesToDefaultPage ==
    [][\A c \in Conns :
          (wk[c].pc = "deref" /\ wk[c].req # NullReq /\ wk'[c].pc # "deref" /\ ~crashed') =>
              LET target == wk[c].req.url
                  name   == IF target = <<"/">> THEN DefaultPage ELSE target
              IN  /\ wk'[c].req.url = name
                  /\ wk'[c].path = SiteDir \o name
                  /\ (wk'[c].file = "open") = (SiteDir \o name \in Files)]_vars

\* the value of the last of the lines whose name is exactly name, or NULL
RECURSIVE LastValue(_, _)
LastValue(lines, name) ==
    IF lines = <<>> THEN NullStr
    ELSE IF lines[Len(lines)].name = name THEN lines[Len(lines)].value
    ELSE LastValue(SubSeq(lines, 1, Len(lines) - 1), name)

\* names looked up: the three header names and one that no input has
ProbeNames == Names \cup {<<"M">>}

\* C15: the header store never holds a name twice; after the 'Name: Value'
\* lines of a request were inserted, get_request_header returns for each
\* name the value of the last line with exactly that name, and NULL for a
\* name no line has, a differently cased one included.
C15_HeaderStoreIsMap ==
    /\ pout.status = "req" =>
          \A e1, e2 \in pout.req.header_htab : e1.k = e2.k => e1 = e2
    /\ (pout.status # "none" /\ Len(pin.toks) = 3
            /\ \A i \in 1..Len(pin.lines) : pin.lines[i].colon) =>
          /\ pout.status = "req"
          /\ \A n \in ProbeNames :
                get_request_header(pout.req, n) = LastValue(pin.lines, n)

C15_Witness ==
    /\ pout.status = "req" /\ Len(pin.toks) = 3 /\ Len(pin.lines) = 2
    /\ pin.lines[1].colon /\ pin.lines[2].colon
    /\ pin.lines[1].name = <<"K">> /\ pin.lines[2].name = <<"K">>
    /\ pin.lines[1].value # pin.lines[2].value
    /\ get_request_header(pout.req, <<"K">>) = pin.lines[2].value
    /\ get_request_header(pout.req, <<"k">>) = NullStr

\* the Request has its three request-line fields and a header table
FullyPopulated(req) ==
    /\ req # NullReq
    /\ req.http_method # NullStr
    /\ req.url # NullStr
    /\ req.http_ver # NullStr
    /\ \A e \in req.header_htab : e.k # NullStr /\ e.v # NullStr

C17_HandoffRaceFree ==
    \A c \in Conns :
        /\ wk[c].pc \notin {"idle", "start"} =>
              (wk[c].conn_fd = c /\ cell[c].frees = 1 /\ ~cell[c].live)
        /\ cell[c].frees <= 1
        /\ (conn[c].start_failed /\ dpc = "accept") =>
              (cell[c].frees = 1 /\ ~cell[c].live)

\* C18: two get_request calls that receive the same bytes give the same
\* outcome, whatever req_buf held before.
C18_OutcomeIndependentOfPrior ==
    pout.status = "done" => pout.a = pout.b

\* C19: the path built from document root and target fits file_path: it is
\* never longer than FILE_PATH_BUF_SIZE - 1 characters.
C19_PathFitsBuffer ==
    pout.status = "done" => pout.path_len <= FILE_PATH_BUF_SIZE - 1

====
